---- MODULE Spec2Model ----
(***************************************************************************)
(* Model of src/native/_mutable.js of safe_app_nodejs: the marshalling     *)
(* layer between MutableData value objects and the native safe_app ABI.    *)
(*                                                                         *)
(* Byte buffers are sequences of numbers 0..255.  A JavaScript value that  *)
(* may or may not be a Buffer is a record [isBuffer, items].  A type tag   *)
(* is a record [kind, n]: kind "integer" for a JavaScript integer n, kind  *)
(* "fraction" for a number with integer part n and a fractional part, kind *)
(* "decimal" for the string of decimal digits of 2^64 + n (n < 0), kind    *)
(* "string" for a string that is no number; Number.isInteger rejects the   *)
(* last three.  A call that may throw returns [ok |-> TRUE, val |-> v] or  *)
(* [ok |-> FALSE, err |-> e].                                              *)
(***************************************************************************)
EXTENDS Integers, Sequences, FiniteSets, TLC

(***************************************************************************)
(* Fixed sizes of the native array types (t.XOR_NAME, t.SYM_KEYBYTES,      *)
(* t.SYM_NONCEBYTES of ./_base).                                           *)
(***************************************************************************)
XOR_NAME_size == 32
SYM_KEYBYTES_size == 32
SYM_NONCEBYTES_size == 24

Fill(n, b) == [i \in 1..n |-> b]

\* Buffer.alloc(size): a zero-filled buffer
Buffer_alloc(size) == Fill(size, 0)

\* new Buffer(arrayOfNumbers): every element is stored as one byte
new_Buffer(items) == [i \in 1..Len(items) |-> items[i] % 256]

Buffer_isBuffer(v) == v.isBuffer

Number_isInteger(tag) == tag.kind = "integer"

\* makeError(code, msg): the typed error of ./_error.js, named by its
\* error_const entry and carrying the expected size its message names
makeError(code, size) == [error |-> code, expected |-> size]

Return(v) == [ok |-> TRUE, val |-> v]
Throw(e) == [ok |-> FALSE, err |-> e]

(***************************************************************************)
(* Values of the array-typed fields.  A field value of a MutableDataInfo   *)
(* object is a Buffer [isBuffer |-> TRUE, items], a plain array of numbers *)
(* [isBuffer |-> FALSE, items], or an instance of the field's array type   *)
(* (t.XOR_NAME, t.SYM_KEYBYTES, t.SYM_NONCEBYTES of ./_base, made by       *)
(* ref-array), which is known by the buffer it carries.  A wire struct     *)
(* holds the bytes of its fields.                                          *)
(***************************************************************************)
ArrayInstance(bytes) == [isBuffer |-> FALSE, buffer |-> bytes]
IsArrayInstance(v) == "buffer" \in DOMAIN v

\* an Error or TypeError thrown by Node or by ref, ref-struct or ref-array:
\* not an error made by makeError
JsError(msg) == [error |-> "Error", message |-> msg]

\* storing a value into an array-typed field of a struct (ref-array set):
\* an instance of the type or an array is copied item by item into the
\* field, which keeps its fixed size and starts zero-filled; an item that
\* is no byte is refused by the write of the item (writeUInt8); a value
\* that is neither an instance nor an array is refused as a whole
setArrayField(value, size) ==
  IF IsArrayInstance(value)
  THEN Return([i \in 1..size |->
                 IF i <= Len(value.buffer) THEN value.buffer[i] ELSE 0])
  ELSE IF Buffer_isBuffer(value)
  THEN Throw(JsError("not sure how to set into Array"))
  ELSE IF \E i \in 1..Len(value.items) : i <= size /\ value.items[i] \notin 0..255
  THEN Throw(JsError("value is out of bounds"))
  ELSE Return([i \in 1..size |->
                 IF i <= Len(value.items) THEN value.items[i] ELSE 0])

\* what a u64 field holding the 64 bits of the integer n reads as (ref
\* readUInt64): the number when n is not negative, else the unsigned value
\* 2^64 + n, which no JavaScript number holds exactly, as a string of
\* decimal digits
u64Value(n) ==
  IF n >= 0 THEN [kind |-> "integer", n |-> n] ELSE [kind |-> "decimal", n |-> n]

\* storing a type tag into the u64 field (ref writeUInt64): a number is
\* stored as the 64 bits of its integer part, a string of decimal digits as
\* its value, a string that is no number is refused
setU64Field(tag) ==
  IF tag.kind \in {"integer", "fraction", "decimal"} THEN Return(u64Value(tag.n))
  ELSE Throw(JsError("no suitable uint64 value"))

\* new MDataInfo({...}) (lines 64-86, 106-115): the fields are stored in the
\* order they are written, and the first value a field refuses throws
new_MDataInfo(fields) ==
  LET name          == setArrayField(fields.name, XOR_NAME_size)
      type_tag      == setU64Field(fields.type_tag)
      enc_key       == setArrayField(fields.enc_key, SYM_KEYBYTES_size)
      enc_nonce     == setArrayField(fields.enc_nonce, SYM_NONCEBYTES_size)
      new_enc_key   == setArrayField(fields.new_enc_key, SYM_KEYBYTES_size)
      new_enc_nonce == setArrayField(fields.new_enc_nonce, SYM_NONCEBYTES_size)
  IN  IF ~name.ok THEN name
      ELSE IF ~type_tag.ok THEN type_tag
      ELSE IF ~enc_key.ok THEN enc_key
      ELSE IF ~enc_nonce.ok THEN enc_nonce
      ELSE IF ~new_enc_key.ok THEN new_enc_key
      ELSE IF ~new_enc_nonce.ok THEN new_enc_nonce
      ELSE Return(
        [ name             |-> name.val,
          type_tag         |-> type_tag.val,
          has_enc_info     |-> fields.has_enc_info,
          enc_key          |-> enc_key.val,
          enc_nonce        |-> enc_nonce.val,
          has_new_enc_info |-> fields.has_new_enc_info,
          new_enc_key      |-> new_enc_key.val,
          new_enc_nonce    |-> new_enc_nonce.val ])

(***************************************************************************)
(* Encoder of MutableDataInfo                                              *)
(***************************************************************************)
makeMDataInfo_noZeroFill(mDataInfoObj) ==
  new_MDataInfo(
    [ name             |-> mDataInfoObj.name,
      type_tag         |-> mDataInfoObj.typeTag,
      has_enc_info     |-> mDataInfoObj.has_enc_info,
      enc_key          |-> mDataInfoObj.enc_key,
      enc_nonce        |-> mDataInfoObj.enc_nonce,
      has_new_enc_info |-> mDataInfoObj.has_new_enc_info,
      new_enc_key      |-> mDataInfoObj.new_enc_key,
      new_enc_nonce    |-> mDataInfoObj.new_enc_nonce ])

makeMDataInfo(mDataInfoObj) ==
  LET enc_key == IF mDataInfoObj.has_enc_info
                 THEN mDataInfoObj.enc_key
                 ELSE ArrayInstance(Buffer_alloc(SYM_KEYBYTES_size))
      enc_nonce == IF mDataInfoObj.has_enc_info
                   THEN mDataInfoObj.enc_nonce
                   ELSE ArrayInstance(Buffer_alloc(SYM_NONCEBYTES_size))
      new_enc_key == IF mDataInfoObj.has_new_enc_info
                     THEN mDataInfoObj.new_enc_key
                     ELSE ArrayInstance(Buffer_alloc(SYM_KEYBYTES_size))
      new_enc_nonce == IF mDataInfoObj.has_new_enc_info
                       THEN mDataInfoObj.new_enc_nonce
                       ELSE ArrayInstance(Buffer_alloc(SYM_NONCEBYTES_size))
  IN  new_MDataInfo(
        [ name             |-> mDataInfoObj.name,
          type_tag         |-> mDataInfoObj.typeTag,
          has_enc_info     |-> mDataInfoObj.has_enc_info,
          enc_key          |-> enc_key,
          enc_nonce        |-> enc_nonce,
          has_new_enc_info |-> mDataInfoObj.has_new_enc_info,
          new_enc_key      |-> new_enc_key,
          new_enc_nonce    |-> new_enc_nonce ])

(***************************************************************************)
(* Decoder of MutableDataInfo.  mDataInfo holds, for each array field it   *)
(* has, the bytes new Buffer(field) gives.  The array type applied to a    *)
(* buffer (ref-array) throws when the buffer is shorter than the fixed     *)
(* size and keeps the first bytes of a longer one; applied to null it      *)
(* gives an instance without bytes.  Only the name is converted inside the *)
(* try, whose catch throws the XOR_NAME error.  new_enc_key and            *)
(* new_enc_nonce are built from mDataInfo.enc_key and mDataInfo.enc_nonce  *)
(* (lines 234-235), the nonce under the test of the key.                   *)
(***************************************************************************)
fixedArray(bytes, size) ==
  IF Len(bytes) < size
  THEN Throw(JsError("buffer length must be at least the fixed size"))
  ELSE Return(ArrayInstance(SubSeq(bytes, 1, size)))

\* the field is there: mDataInfo.enc_key ? ... : null
Has(mDataInfo, field) == field \in DOMAIN mDataInfo

decodedFields(mDataInfo) ==
  [ name |->
      IF Has(mDataInfo, "name") THEN fixedArray(mDataInfo.name, XOR_NAME_size)
      ELSE Throw(JsError("new Buffer(undefined)")),
    enc_key |->
      IF Has(mDataInfo, "enc_key")
      THEN fixedArray(mDataInfo.enc_key, SYM_KEYBYTES_size)
      ELSE Return(ArrayInstance(<< >>)),
    enc_nonce |->
      IF Has(mDataInfo, "enc_nonce")
      THEN fixedArray(mDataInfo.enc_nonce, SYM_NONCEBYTES_size)
      ELSE Return(ArrayInstance(<< >>)),
    new_enc_key |->
      IF Has(mDataInfo, "enc_key")
      THEN fixedArray(mDataInfo.enc_key, SYM_KEYBYTES_size)
      ELSE Return(ArrayInstance(<< >>)),
    new_enc_nonce |->
      IF Has(mDataInfo, "enc_key")
      THEN IF Has(mDataInfo, "enc_nonce")
           THEN fixedArray(mDataInfo.enc_nonce, SYM_NONCEBYTES_size)
           ELSE Throw(JsError("new Buffer(undefined)"))
      ELSE Return(ArrayInstance(<< >>)) ]

makeMDataInfoObj_flagsFromKeys(mDataInfo) ==
  LET f == decodedFields(mDataInfo)
  IN  IF ~f.name.ok THEN Throw(makeError("XOR_NAME", XOR_NAME_size))
      ELSE IF ~Number_isInteger(mDataInfo.type_tag)
      THEN Throw(makeError("TYPE_TAG_NAN", 0))
      ELSE IF ~f.enc_key.ok THEN f.enc_key
      ELSE IF ~f.enc_nonce.ok THEN f.enc_nonce
      ELSE IF ~f.new_enc_key.ok THEN f.new_enc_key
      ELSE IF ~f.new_enc_nonce.ok THEN f.new_enc_nonce
      ELSE Return(
        [ name             |-> f.name.val,
          typeTag          |-> mDataInfo.type_tag,
          has_enc_info     |-> f.enc_key.val.buffer
                                 # Buffer_alloc(Len(f.enc_key.val.buffer)),
          enc_key          |-> f.enc_key.val,
          enc_nonce        |-> f.enc_nonce.val,
          has_new_enc_info |-> mDataInfo.new_enc_key
                                 # Buffer_alloc(Len(mDataInfo.new_enc_key)),
          new_enc_key      |-> f.new_enc_key.val,
          new_enc_nonce    |-> f.new_enc_nonce.val ])

makeMDataInfoObj(mDataInfo) ==
  LET f == decodedFields(mDataInfo)
  IN  IF ~f.name.ok THEN Throw(makeError("XOR_NAME", XOR_NAME_size))
      ELSE IF ~Number_isInteger(mDataInfo.type_tag)
      THEN Throw(makeError("TYPE_TAG_NAN", 0))
      ELSE IF ~f.enc_key.ok THEN f.enc_key
      ELSE IF ~f.enc_nonce.ok THEN f.enc_nonce
      ELSE IF ~f.new_enc_key.ok THEN f.new_enc_key
      ELSE IF ~f.new_enc_nonce.ok THEN f.new_enc_nonce
      ELSE Return(
        [ name             |-> f.name.val,
          typeTag          |-> mDataInfo.type_tag,
          has_enc_info     |-> mDataInfo.has_enc_info,
          enc_key          |-> f.enc_key.val,
          enc_nonce        |-> f.enc_nonce.val,
          has_new_enc_info |-> mDataInfo.has_new_enc_info,
          new_enc_key      |-> f.new_enc_key.val,
          new_enc_nonce    |-> f.new_enc_nonce.val ])

(***************************************************************************)
(* Input transform of mdata_info_new_private.  Each of the three byte      *)
(* arguments goes through the same two-branch block: a Buffer is taken as  *)
(* it is, anything else is first turned into a Buffer; either way a length *)
(* other than the fixed size throws the argument's error.                  *)
(***************************************************************************)
fixedSizeArg_bufferUnchecked(v, size, code) ==
  LET b == IF Buffer_isBuffer(v) THEN v.items ELSE new_Buffer(v.items)
  IN  IF ~Buffer_isBuffer(v) /\ Len(b) # size
      THEN Throw(makeError(code, size))
      ELSE Return(b)

fixedSizeArg(v, size, code) ==
  LET b == IF Buffer_isBuffer(v) THEN v.items ELSE new_Buffer(v.items)
  IN  IF Len(b) # size
      THEN Throw(makeError(code, size))
      ELSE Return(b)

translatePrivMDInput_tagLast(xorname, tag, secKey, nonce) ==
  LET name == fixedSizeArg(xorname, XOR_NAME_size, "XOR_NAME")
      sk   == fixedSizeArg(secKey, SYM_KEYBYTES_size, "INVALID_SEC_KEY")
      n    == fixedSizeArg(nonce, SYM_NONCEBYTES_size, "NONCE")
  IN  IF ~name.ok THEN name
      ELSE IF ~sk.ok THEN sk
      ELSE IF ~n.ok THEN n
      ELSE IF ~Number_isInteger(tag) THEN Throw(makeError("TYPE_TAG_NAN", 0))
      ELSE Return(<<name.val, tag, sk.val, n.val>>)

translatePrivMDInput(xorname, tag, secKey, nonce) ==
  LET name == fixedSizeArg(xorname, XOR_NAME_size, "XOR_NAME")
      sk   == fixedSizeArg(secKey, SYM_KEYBYTES_size, "INVALID_SEC_KEY")
      n    == fixedSizeArg(nonce, SYM_NONCEBYTES_size, "NONCE")
  IN  IF ~Number_isInteger(tag) THEN Throw(makeError("TYPE_TAG_NAN", 0))
      ELSE IF ~name.ok THEN name
      ELSE IF ~sk.ok THEN sk
      ELSE IF ~n.ok THEN n
      ELSE Return(<<name.val, tag, sk.val, n.val>>)

(***************************************************************************)
(* Input transforms that encode a MutableDataInfo.  mDataInfo.ref(), the   *)
(* pointer handed to the native call, is modelled by the struct it points  *)
(* to.                                                                     *)
(***************************************************************************)
toMDataInfo(appPtr, mDataInfoObj, varArgs) ==
  LET mDataInfo == makeMDataInfo(mDataInfoObj)
  IN  IF mDataInfo.ok THEN Return(<<appPtr, mDataInfo.val>> \o varArgs)
      ELSE mDataInfo

firstToMDataInfo(mDataInfoObj, varArgs) ==
  LET mDataInfo == makeMDataInfo(mDataInfoObj)
  IN  IF mDataInfo.ok THEN Return(<<mDataInfo.val>> \o varArgs)
      ELSE mDataInfo

\* the UTF-8 encoding of one code point
utf8(c) ==
  IF c < 128 THEN <<c>>
  ELSE IF c < 2048 THEN <<192 + (c \div 64), 128 + (c % 64)>>
  ELSE IF c < 65536
  THEN <<224 + (c \div 4096), 128 + ((c \div 64) % 64), 128 + (c % 64)>>
  ELSE <<240 + (c \div 262144), 128 + ((c \div 4096) % 64),
         128 + ((c \div 64) % 64), 128 + (c % 64)>>

IsHighSurrogate(c) == c \in 55296..56319
IsLowSurrogate(c) == c \in 56320..57343

\* new Buffer(string): the UTF-8 encoding of the string.  chars are the
\* numbers the string is made of (String.fromCodePoint): a high surrogate
\* followed by a low one is one code point above U+FFFF, a surrogate on its
\* own is encoded as U+FFFD (EF BF BD)
RECURSIVE Buffer_fromString(_)
Buffer_fromString(chars) ==
  IF chars = << >> THEN << >>
  ELSE LET c == Head(chars)
       IN  IF /\ IsHighSurrogate(c)
              /\ Len(chars) > 1
              /\ IsLowSurrogate(chars[2])
           THEN utf8(65536 + (c - 55296) * 1024 + (chars[2] - 56320))
                  \o Buffer_fromString(Tail(Tail(chars)))
           ELSE IF IsHighSurrogate(c) \/ IsLowSurrogate(c)
           THEN <<239, 191, 189>> \o Buffer_fromString(Tail(chars))
           ELSE utf8(c) \o Buffer_fromString(Tail(chars))

\* item => Buffer.isBuffer(item) ? item : (item.buffer || new Buffer(item))
\* an item is a Buffer, an object with a buffer of its own (a ref-array
\* instance), a string (chars) or an array of numbers (items)
itemToBuffer(item) ==
  IF Buffer_isBuffer(item) THEN item.items
  ELSE IF "buffer" \in DOMAIN item THEN item.buffer
  ELSE IF "chars" \in DOMAIN item THEN Buffer_fromString(item.chars)
  ELSE new_Buffer(item.items)

\* every item after the first two becomes the pair buffer, buffer.length
RECURSIVE bufferPairs(_)
bufferPairs(items) ==
  IF items = << >> THEN << >>
  ELSE LET buf == itemToBuffer(Head(items))
       IN  <<buf, Len(buf)>> \o bufferPairs(Tail(items))

strToBuffer(appPtr, mdata, varArgs) ==
  Return(<<appPtr, mdata>> \o bufferPairs(varArgs))

\* new Buffer(number) is a buffer of that many bytes
strToBufferButLastEntry_lastBuffered(appPtr, mdata, varArgs) ==
  LET lastArg == varArgs[Len(varArgs)]
  IN  Return(<<appPtr, mdata>>
               \o bufferPairs(SubSeq(varArgs, 1, Len(varArgs) - 1))
               \o <<Buffer_alloc(lastArg), lastArg>>)

\* keep last entry as is
strToBufferButLastEntry(appPtr, mdata, varArgs) ==
  LET lastArg == varArgs[Len(varArgs)]
  IN  Return(<<appPtr, mdata>>
               \o bufferPairs(SubSeq(varArgs, 1, Len(varArgs) - 1))
               \o <<lastArg>>)

(***************************************************************************)
(* State.  One operation runs at a time: a direct call of an exported      *)
(* helper (helpersForNative) or one invocation of an api entry, from the   *)
(* call to its settlement and to the engine reusing its memory afterwards. *)
(* The file keeps no state between calls, so an operation started while   *)
(* another is in flight runs as it does on its own; operations in flight   *)
(* together are not modelled.                                              *)
(***************************************************************************)
VARIABLES
  pc,            \* "idle", "encoded", "decoded", "returned" (toMDataInfo
                 \* has returned), "threw" (a helper threw),
                 \* "dispatched", "settled", "building" (between two calls
                 \* on an entry-actions handle)
  op,            \* name of the helper or api entry in progress
  input,         \* the caller's arguments
  wire,          \* helper calls: the encoded struct
  back,          \* helper calls: what the decoder returned
  nativeCalls,   \* native calls issued by this invocation, in order
  raw,           \* the native completion: result code and raw outputs
  settlements,   \* settlements of the invocation's promise, in order
  reads,         \* engine addresses the output transform reinterpreted
  blobs,         \* engine-owned byte memory, by address
  blobsAtDecode, \* engine memory as it was when the output was decoded
  batch          \* the entry-actions handle in use and the calls made on it

vars == <<pc, op, input, wire, back, nativeCalls, raw, settlements, reads,
          blobs, blobsAtDecode, batch>>

None == [none |-> TRUE]
Undefined == [undefined |-> TRUE]

\* ref.NULL, the address ref.isNull tests for
NULL == 0
ref_isNull(ptr) == ptr = NULL

\* a pointer to a struct or to an array of structs: its address and what
\* lies there (deref)
Ptr(a, t) == [addr |-> a, target |-> t]
deref(p) == p.target

(***************************************************************************)
(* Decoded byte payloads.  ref.reinterpret(ptr, len) is a Buffer over the  *)
(* engine's own memory at ptr and throws when ptr is the NULL pointer; new *)
(* Buffer(buffer) copies the bytes it holds at that moment.                *)
(***************************************************************************)
ref_reinterpret(ptr, len) ==
  IF ref_isNull(ptr)
  THEN Throw(JsError("reinterpret: Cannot reinterpret from NULL pointer"))
  ELSE Return([view |-> TRUE, addr |-> ptr, len |-> len, bytes |-> << >>])

\* a pointer handed on as it is: a Buffer of length 0 at its address
PointerObject(ptr) ==
  [view |-> TRUE, addr |-> ptr, len |-> 0, bytes |-> << >>]

Memory(mem, ptr, len) ==
  IF ptr = NULL \/ len = 0 THEN << >> ELSE SubSeq(mem[ptr], 1, len)

\* the bytes a decoded payload shows when engine memory is mem
Contents(b, mem) == IF b.view THEN Memory(mem, b.addr, b.len) ELSE b.bytes

Buffer_from(b) ==
  [view |-> FALSE, addr |-> NULL, len |-> b.len, bytes |-> Contents(b, blobs)]

Buffer_empty == [view |-> FALSE, addr |-> NULL, len |-> 0, bytes |-> << >>]

(***************************************************************************)
(* Output transforms                                                       *)
(***************************************************************************)
\* reinterpret is reached with a pointer that is not null only
readValueToBuffer(argsArr) ==
  [ buf     |-> IF ref_isNull(argsArr[1])
                THEN PointerObject(argsArr[1])
                ELSE Buffer_from(ref_reinterpret(argsArr[1], argsArr[2]).val),
    version |-> argsArr[3] ]

\* the JavaScript value null, and the test a conditional makes of a value
\* that is null or a pointer: every pointer object is truthy, the NULL
\* pointer too
JsNull == [jsnull |-> TRUE]
IsTruthy(v) == "addr" \in DOMAIN v

\* ptr.deref(): reading what the NULL pointer points to throws (ref)
ptr_deref(ptr) ==
  IF ref_isNull(ptr.addr)
  THEN Throw(JsError("deref of the NULL pointer"))
  ELSE Return(deref(ptr))

readMDataInfoPtr(mDataInfoPtr) ==
  IF IsTruthy(mDataInfoPtr[1])
  THEN LET st == ptr_deref(mDataInfoPtr[1])
       IN  IF st.ok THEN makeMDataInfoObj(st.val) ELSE st
  ELSE Return(None)

readPermsSet(permsSet) ==
  [ Read              |-> permsSet.Read,
    Insert            |-> permsSet.Insert,
    Update            |-> permsSet.Update,
    Delete            |-> permsSet.Delete,
    ManagePermissions |-> permsSet.ManagePermissions ]

\* the function body computes permSet and ends without a return statement
readPermissionSetPtr(permSetPtr) ==
  LET st == ptr_deref(permSetPtr[1])
  IN  IF st.ok
      THEN LET permSet == readPermsSet(st.val)
           IN  Return(Undefined)
      ELSE st

\* output transform of mdata_encode_metadata
encode_metadata_after(args) ==
  IF ref_isNull(args[1])
  THEN PointerObject(args[1])
  ELSE Buffer_from(ref_reinterpret(args[1], args[2]).val)

(***************************************************************************)
(* Output transforms of the four array-returning entries.  args is         *)
(* <<pointer to the record array, length>>.  Each returns the list it      *)
(* builds (val) and the set of addresses it reinterpreted (reads), or      *)
(* throws what ref.reinterpret threw, at the first record that made it     *)
(* throw.                                                                  *)
(***************************************************************************)
Decoded(list, addrs) == [ok |-> TRUE, val |-> list, reads |-> addrs]
Failed(e, addrs) == [ok |-> FALSE, err |-> e, reads |-> addrs]

\* the first of the results rs that is a throw, 0 when none is
FirstThrow(rs) ==
  LET bad == { i \in DOMAIN rs : ~rs[i].ok }
  IN  IF bad = {} THEN 0 ELSE CHOOSE i \in bad : \A j \in bad : i <= j

\* ref.reinterpret(ptr, size * len) of the record array
reinterpretArray(ptr) == ref_reinterpret(ptr.addr, 1)

list_permission_sets_after(args) ==
  LET ptr == args[1]
      len == args[2]
      arrPtr == reinterpretArray(ptr)
      arr == deref(ptr)
  IN  IF len > 0
      THEN IF arrPtr.ok
           THEN Decoded([i \in 1..len |->
                           [ signKey |-> arr[i].user_h,
                             permSet |-> readPermsSet(arr[i].perm_set) ]],
                        {ptr.addr})
           ELSE Failed(arrPtr.err, {})
      ELSE Decoded(<< >>, {})

list_entries_after(args) ==
  LET ptr == args[1]
      len == args[2]
      arrPtr == reinterpretArray(ptr)
      arr == deref(ptr)
      keyStr == [i \in 1..len |->
                   ref_reinterpret(arr[i].key.val_ptr, arr[i].key.val_len)]
      contentRead == { i \in 1..len : arr[i].value.content_len # 0 }
      valueStr ==
        [i \in 1..len |->
           IF arr[i].value.content_len = 0
           THEN Return(Buffer_empty)
           ELSE LET r == ref_reinterpret(arr[i].value.content_ptr,
                                         arr[i].value.content_len)
                IN  IF r.ok THEN Return(Buffer_from(r.val)) ELSE r]
      entryObject == [i \in 1..len |->
                        IF keyStr[i].ok THEN valueStr[i] ELSE keyStr[i]]
      k == FirstThrow(entryObject)
  IN  IF len > 0
      THEN IF ~arrPtr.ok THEN Failed(arrPtr.err, {})
           ELSE IF k = 0
           THEN Decoded([i \in 1..len |->
                           [ key   |-> keyStr[i].val,
                             value |-> [ buf     |-> valueStr[i].val,
                                         version |-> arr[i].value.entry_version ] ]],
                        {ptr.addr}
                          \cup {arr[i].key.val_ptr : i \in 1..len}
                          \cup {arr[i].value.content_ptr : i \in contentRead})
           ELSE Failed(entryObject[k].err,
                       {ptr.addr}
                         \cup {arr[i].key.val_ptr : i \in 1..(k - 1)}
                         \cup {arr[i].value.content_ptr :
                                  i \in contentRead \cap 1..(k - 1)}
                         \cup (IF keyStr[k].ok THEN {arr[k].key.val_ptr} ELSE {}))
      ELSE Decoded(<< >>, {})

list_keys_after_anyLength(args) ==
  LET ptr == args[1]
      len == args[2]
      arrPtr == reinterpretArray(ptr)
      arr == deref(ptr)
      keyStr == [i \in 1..len |-> ref_reinterpret(arr[i].val_ptr, arr[i].val_len)]
      k == FirstThrow(keyStr)
  IN  IF ~arrPtr.ok THEN Failed(arrPtr.err, {})
      ELSE IF k = 0
      THEN Decoded([i \in 1..len |-> keyStr[i].val],
                   {ptr.addr} \cup {arr[i].val_ptr : i \in 1..len})
      ELSE Failed(keyStr[k].err,
                  {ptr.addr} \cup {arr[i].val_ptr : i \in 1..(k - 1)})

list_keys_after(args) ==
  LET ptr == args[1]
      len == args[2]
      arrPtr == reinterpretArray(ptr)
      arr == deref(ptr)
      keyStr == [i \in 1..len |-> ref_reinterpret(arr[i].val_ptr, arr[i].val_len)]
      k == FirstThrow(keyStr)
  IN  IF len > 0
      THEN IF ~arrPtr.ok THEN Failed(arrPtr.err, {})
           ELSE IF k = 0
           THEN Decoded([i \in 1..len |-> keyStr[i].val],
                        {ptr.addr} \cup {arr[i].val_ptr : i \in 1..len})
           ELSE Failed(keyStr[k].err,
                       {ptr.addr} \cup {arr[i].val_ptr : i \in 1..(k - 1)})
      ELSE Decoded(<< >>, {})

list_values_after(args) ==
  LET ptr == args[1]
      len == args[2]
      arrPtr == reinterpretArray(ptr)
      arr == deref(ptr)
      valueStr == [i \in 1..len |->
                     ref_reinterpret(arr[i].content_ptr, arr[i].content_len)]
      k == FirstThrow(valueStr)
  IN  IF len > 0
      THEN IF ~arrPtr.ok THEN Failed(arrPtr.err, {})
           ELSE IF k = 0
           THEN Decoded([i \in 1..len |->
                           [ buf     |-> valueStr[i].val,
                             version |-> arr[i].entry_version ]],
                        {ptr.addr} \cup {arr[i].content_ptr : i \in 1..len})
           ELSE Failed(valueStr[k].err,
                       {ptr.addr} \cup {arr[i].content_ptr : i \in 1..(k - 1)})
      ELSE Decoded(<< >>, {})

(***************************************************************************)
(* PermissionSet encoder: h.makePermissionSet of ./_base maps the five     *)
(* capabilities to the wire struct field for field; a capability the       *)
(* object does not specify is false.                                       *)
(***************************************************************************)
Capabilities == {"Read", "Insert", "Update", "Delete", "ManagePermissions"}

makePermissionSet(perms) ==
  [c \in Capabilities |-> c \in DOMAIN perms /\ perms[c]]

Front(seq) == SubSeq(seq, 1, Len(seq) - 1)
Last(seq) == seq[Len(seq)]

lastToPermissionSet(varArgs) ==
  LET permsList == Last(varArgs)
      permSet == makePermissionSet(permsList)
  IN  Return(Front(varArgs) \o <<permSet>>)

\* new Buffer(value) of a Buffer (a copy), an array-type instance, a string
\* or an array of numbers
new_Buffer_of(value) ==
  IF IsArrayInstance(value) THEN value.buffer
  ELSE IF "chars" \in DOMAIN value THEN Buffer_fromString(value.chars)
  ELSE new_Buffer(value.items)

bufferLastEntry(varArgs) ==
  LET str == new_Buffer_of(Last(varArgs))
  IN  Return(Front(varArgs) \o <<str, Len(str)>>)

firstToMDataInfoLastToBuffer(varArgs) ==
  LET mDataInfo == firstToMDataInfo(Head(varArgs), Tail(varArgs))
  IN  IF mDataInfo.ok THEN bufferLastEntry(mDataInfo.val) ELSE mDataInfo

(***************************************************************************)
(* Bounds and the values the operations are exercised on                   *)
(***************************************************************************)
\* fixed-size arguments are tried at every length within LenSlack of the size
LenSlack == 1
\* most calls made on one entry-actions handle
MaxCalls == 4
\* longest record array the engine returns
MaxArrayLen == 2
\* number of engine byte buffers
NumBlobs == 2

Lengths(size) == (size - LenSlack)..(size + LenSlack)

\* 15000, -1, the fraction 1.5 (n is its integer part) and a string that is
\* no number
Tags == { [kind |-> "integer", n |-> 15000], [kind |-> "integer", n |-> -1],
          [kind |-> "fraction", n |-> 1], [kind |-> "string", n |-> 0] }

\* a Buffer of bytes 7, and a plain array of numbers 263 (stored as bytes 7)
ByteArgs(size) ==
  { [isBuffer |-> TRUE, items |-> Fill(n, 7)] : n \in Lengths(size) } \cup
  { [isBuffer |-> FALSE, items |-> Fill(n, 263)] : n \in Lengths(size) }

\* values of a key or nonce field of an object: instances of the field's
\* type, arrays of bytes of the right and of other lengths, an array of
\* numbers that are no bytes, and a Buffer
FieldValues(size) ==
  { ArrayInstance(Buffer_alloc(size)), ArrayInstance(Fill(size, 2)) } \cup
  { [isBuffer |-> FALSE, items |-> Fill(n, 1)] : n \in Lengths(size) } \cup
  { [isBuffer |-> FALSE, items |-> Fill(size, 263)],
    [isBuffer |-> TRUE, items |-> Fill(size, 1)] }

MDataInfoObjs ==
  [ name             : {ArrayInstance(Fill(XOR_NAME_size, 9))},
    typeTag          : Tags,
    has_enc_info     : BOOLEAN,
    enc_key          : FieldValues(SYM_KEYBYTES_size),
    enc_nonce        : FieldValues(SYM_NONCEBYTES_size),
    has_new_enc_info : BOOLEAN,
    new_enc_key      : FieldValues(SYM_KEYBYTES_size),
    new_enc_nonce    : FieldValues(SYM_NONCEBYTES_size) ]

\* the bytes a field value holds
BytesOf(v) == IF IsArrayInstance(v) THEN v.buffer ELSE new_Buffer(v.items)

\* an unsigned integer, as the type tag of a MutableDataInfo is
IsUnsignedInteger(tag) == Number_isInteger(tag) /\ tag.n >= 0

\* the tag is an unsigned integer, absent encryption info is zero-filled,
\* present info has the fixed sizes
ValidMDataInfoObj(x) ==
  /\ Len(BytesOf(x.name)) = XOR_NAME_size
  /\ IsUnsignedInteger(x.typeTag)
  /\ Len(BytesOf(x.enc_key)) = SYM_KEYBYTES_size
  /\ Len(BytesOf(x.enc_nonce)) = SYM_NONCEBYTES_size
  /\ Len(BytesOf(x.new_enc_key)) = SYM_KEYBYTES_size
  /\ Len(BytesOf(x.new_enc_nonce)) = SYM_NONCEBYTES_size
  /\ ~x.has_enc_info =>
       /\ BytesOf(x.enc_key) = Buffer_alloc(SYM_KEYBYTES_size)
       /\ BytesOf(x.enc_nonce) = Buffer_alloc(SYM_NONCEBYTES_size)
  /\ ~x.has_new_enc_info =>
       /\ BytesOf(x.new_enc_key) = Buffer_alloc(SYM_KEYBYTES_size)
       /\ BytesOf(x.new_enc_nonce) = Buffer_alloc(SYM_NONCEBYTES_size)

\* the objects passed to api entries that encode a MutableDataInfo
PlainObj ==
  [ name             |-> ArrayInstance(Buffer_alloc(XOR_NAME_size)),
    typeTag          |-> [kind |-> "integer", n |-> 15000],
    has_enc_info     |-> FALSE,
    enc_key          |-> ArrayInstance(Buffer_alloc(SYM_KEYBYTES_size)),
    enc_nonce        |-> ArrayInstance(Buffer_alloc(SYM_NONCEBYTES_size)),
    has_new_enc_info |-> FALSE,
    new_enc_key      |-> ArrayInstance(Buffer_alloc(SYM_KEYBYTES_size)),
    new_enc_nonce    |-> ArrayInstance(Buffer_alloc(SYM_NONCEBYTES_size)) ]

\* with both pairs of encryption info; with a key that is an array one byte
\* short; with a key that is a Buffer one byte short; with a tag that is a
\* fraction; with a tag that is a string
CallObjs ==
  { PlainObj,
    [PlainObj EXCEPT !.has_enc_info = TRUE,
                     !.enc_key = ArrayInstance(Fill(SYM_KEYBYTES_size, 1)),
                     !.enc_nonce = ArrayInstance(Fill(SYM_NONCEBYTES_size, 1)),
                     !.has_new_enc_info = TRUE,
                     !.new_enc_key = ArrayInstance(Fill(SYM_KEYBYTES_size, 2)),
                     !.new_enc_nonce = ArrayInstance(Fill(SYM_NONCEBYTES_size, 2))],
    [PlainObj EXCEPT !.has_enc_info = TRUE,
                     !.enc_key = [isBuffer |-> FALSE,
                                  items |-> Fill(SYM_KEYBYTES_size - 1, 1)],
                     !.enc_nonce = ArrayInstance(Fill(SYM_NONCEBYTES_size, 1))],
    [PlainObj EXCEPT !.has_enc_info = TRUE,
                     !.enc_key = [isBuffer |-> TRUE,
                                  items |-> Fill(SYM_KEYBYTES_size - 1, 1)],
                     !.enc_nonce = ArrayInstance(Fill(SYM_NONCEBYTES_size, 1))],
    [PlainObj EXCEPT !.typeTag = [kind |-> "fraction", n |-> 1]],
    [PlainObj EXCEPT !.typeTag = [kind |-> "string", n |-> 0]] }

\* structs the engine hands back: fixed-size fields, unsigned integer tag
WireStructs ==
  [ name             : {Fill(XOR_NAME_size, 9)},
    type_tag         : {[kind |-> "integer", n |-> 15000]},
    has_enc_info     : BOOLEAN,
    enc_key          : {Buffer_alloc(SYM_KEYBYTES_size), Fill(SYM_KEYBYTES_size, 1)},
    enc_nonce        : {Fill(SYM_NONCEBYTES_size, 1)},
    has_new_enc_info : BOOLEAN,
    new_enc_key      : {Buffer_alloc(SYM_KEYBYTES_size), Fill(SYM_KEYBYTES_size, 2)},
    new_enc_nonce    : {Fill(SYM_NONCEBYTES_size, 2)} ]

\* an object that lacks one field
Without(st, field) == [f \in DOMAIN st \ {field} |-> st[f]]

\* objects makeMDataInfoObj is called on directly: also a short name, tags
\* that are no integers, keys and nonces of other lengths, and objects
\* without a key or without a nonce
DecoderInputs ==
  WireStructs \cup
  { [s EXCEPT !.type_tag = tg] : s \in WireStructs, tg \in Tags } \cup
  { [s EXCEPT !.name = Fill(XOR_NAME_size - 1, 9)] : s \in WireStructs } \cup
  { [s EXCEPT !.enc_key = Fill(n, 1)] :
      s \in WireStructs, n \in Lengths(SYM_KEYBYTES_size) } \cup
  { [s EXCEPT !.enc_nonce = Fill(n, 1)] :
      s \in WireStructs, n \in Lengths(SYM_NONCEBYTES_size) } \cup
  { Without(s, "enc_key") : s \in WireStructs } \cup
  { Without(s, "enc_nonce") : s \in WireStructs }

PermissionSets == [Capabilities -> BOOLEAN]
\* objects that leave some capabilities unspecified
PartialPermissionSets ==
  { [c \in {"Read"} |-> TRUE], [c \in {"Insert", "Delete"} |-> c = "Insert"] }

BlobAddrs == 1..NumBlobs
ArrayAddr == NumBlobs + 1
StructAddr == NumBlobs + 2
InitialBlobs == [a \in BlobAddrs |-> <<10 * a + 1, 10 * a + 2>>]
Overwritten(bytes) == [i \in 1..Len(bytes) |-> 255]

(***************************************************************************)
(* What the engine passes to the completion callback                       *)
(***************************************************************************)
SeqsUpTo(S, n) == UNION { [1..k -> S] : k \in 0..n }

\* non-zero result codes of the engine
ErrorCodes == {-103, -11}

KeyRecords == { [val_ptr |-> a, val_len |-> l] : a \in BlobAddrs, l \in 1..2 }

ValueRecords ==
  { [content_ptr |-> a, content_len |-> 2, entry_version |-> a] : a \in BlobAddrs }
  \cup { [content_ptr |-> NULL, content_len |-> 0, entry_version |-> 0],
         [content_ptr |-> 1, content_len |-> 0, entry_version |-> 4] }

EntryRecords ==
  { [key |-> [val_ptr |-> a, val_len |-> 2], value |-> v] :
      a \in BlobAddrs, v \in ValueRecords }

UserPermissionSets ==
  { [user_h |-> 1, perm_set |-> makePermissionSet([c \in {"Read"} |-> TRUE])],
    [user_h |-> 2, perm_set |-> makePermissionSet([c \in Capabilities |-> c # "Read"])] }

\* a record array of some length at ArrayAddr, or no array at all and a
\* null or stale pointer
ArrayOutputs(S) ==
  { <<Ptr(ArrayAddr, t), Len(t)>> : t \in SeqsUpTo(S, MaxArrayLen) }
  \cup { <<Ptr(NULL, << >>), 0>> }

\* pointer, length: a buffer in engine memory, or the null pointer
BufferOutputs ==
  { <<a, l>> : a \in BlobAddrs, l \in 1..2 } \cup { <<NULL, 0>> }

MDataInfoPtrEntries ==
  { "mdata_info_new_private", "mdata_info_random_public",
    "mdata_info_random_private", "mdata_info_deserialise" }
ValueEntries == { "mdata_get_value", "mdata_entries_get" }
AsBufferEntries ==
  { "mdata_info_encrypt_entry_key", "mdata_info_encrypt_entry_value",
    "mdata_info_decrypt", "mdata_info_serialise" }
\* entries that resolve with the raw outputs: one handle, one number, nothing
HandleEntries ==
  { "mdata_permissions_new", "mdata_list_permissions", "mdata_entries",
    "mdata_entries_new", "mdata_entry_actions_new" }
NumberEntries ==
  { "mdata_serialised_size", "mdata_permissions_len", "mdata_get_version",
    "mdata_entries_len" }
PermissionSetPtrEntries ==
  { "mdata_permissions_get", "mdata_list_user_permissions" }
ArrayEntries ==
  { "mdata_list_permission_sets", "mdata_list_entries", "mdata_list_keys",
    "mdata_list_values" }

Outputs(name) ==
  CASE name \in MDataInfoPtrEntries ->
         { <<Ptr(NULL, makeMDataInfo(PlainObj).val)>> }
         \cup { <<Ptr(StructAddr, st)>> : st \in WireStructs }
    [] name \in ValueEntries ->
         { <<o[1], o[2], v>> : o \in BufferOutputs, v \in {0, 3} }
    [] name \in AsBufferEntries ->
         { <<o[1], o[2], o[2]>> : o \in BufferOutputs }
    [] name = "mdata_encode_metadata" -> BufferOutputs
    [] name \in PermissionSetPtrEntries ->
         { <<Ptr(a, u.perm_set)>> :
             a \in {NULL, StructAddr}, u \in UserPermissionSets }
    [] name = "mdata_list_permission_sets" -> ArrayOutputs(UserPermissionSets)
    [] name = "mdata_list_entries" -> ArrayOutputs(EntryRecords)
    [] name = "mdata_list_keys" -> ArrayOutputs(KeyRecords)
    [] name = "mdata_list_values" -> ArrayOutputs(ValueRecords)
    [] name \in NumberEntries -> { <<64>>, <<136>> }
    [] name \in HandleEntries -> { <<h>> : h \in {1, 2} }
    [] OTHER -> { << >> }

(***************************************************************************)
(* The api table: the output transform of each entry.  An entry without    *)
(* one resolves with the raw outputs.  h.asBuffer of ./_base does what the *)
(* transform of mdata_encode_metadata does.                                *)
(***************************************************************************)
bufferReads(ptr) == IF ref_isNull(ptr) THEN {} ELSE {ptr}

after(name, out) ==
  CASE name \in MDataInfoPtrEntries ->
         LET r == readMDataInfoPtr(out)
         IN  IF r.ok
             THEN [ok |-> TRUE, val |-> r.val, reads |-> {out[1].addr}]
             ELSE [ok |-> FALSE, err |-> r.err, reads |-> {out[1].addr}]
    [] name \in ValueEntries ->
         [ok |-> TRUE, val |-> readValueToBuffer(out), reads |-> bufferReads(out[1])]
    [] name \in AsBufferEntries \cup {"mdata_encode_metadata"} ->
         [ok |-> TRUE, val |-> encode_metadata_after(out), reads |-> bufferReads(out[1])]
    [] name \in PermissionSetPtrEntries ->
         LET r == readPermissionSetPtr(out)
         IN  IF r.ok
             THEN [ok |-> TRUE, val |-> r.val, reads |-> {out[1].addr}]
             ELSE [ok |-> FALSE, err |-> r.err, reads |-> {out[1].addr}]
    [] name = "mdata_list_permission_sets" -> list_permission_sets_after(out)
    [] name = "mdata_list_entries" -> list_entries_after(out)
    [] name = "mdata_list_keys" -> list_keys_after(out)
    [] name = "mdata_list_values" -> list_values_after(out)
    [] OTHER -> [ok |-> TRUE, val |-> out, reads |-> {}]

(***************************************************************************)
(* Promisified (h.Promisified of ./_base): the input transform runs first  *)
(* and its error rejects the promise before any native call; otherwise the *)
(* native function is called once, and its completion settles the promise: *)
(* rejected with the result code when that is not 0, resolved with the     *)
(* transformed outputs when it is.                                         *)
(***************************************************************************)
Resolved(v) == [kind |-> "succeeded", val |-> v]
Rejected(who, e) == [kind |-> "failed", from |-> who, err |-> e]

Promisified_settle_ignoreCode(name, code, out) ==
  IF code # 0
  THEN << Resolved(out) >>
  ELSE LET r == after(name, out)
       IN  IF r.ok THEN << Resolved(r.val) >>
           ELSE << Rejected("decoder", r.err) >>

Promisified_settle(name, code, out) ==
  IF code # 0
  THEN << Rejected("native", [error_code |-> code]) >>
  ELSE LET r == after(name, out)
       IN  IF r.ok THEN << Resolved(r.val) >>
           ELSE << Rejected("decoder", r.err) >>

\* no entry-actions handle is in use
NoBatch == [handle |-> 0, log |-> << >>]

\* the entry-actions handle among the arguments of a native call
HandleArg(fn, args) == IF fn = "mdata_mutate_entries" THEN args[3] ELSE args[2]

\* the entries whose last argument is the expected version of the entry
VersionedActions == {"mdata_entry_actions_update", "mdata_entry_actions_delete"}

\* what is kept of a call on the handle: the function, the handle and, for
\* update and delete, the version
CallOn(fn, args) ==
  IF fn \in VersionedActions
  THEN [fn |-> fn, handle |-> HandleArg(fn, args), version |-> args[Len(args)]]
  ELSE [fn |-> fn, handle |-> HandleArg(fn, args)]

\* one invocation made while a handle is in use: whether its input
\* transform returned, and the native calls it issued
Logged(name, varArgs, formatted, issued) ==
  [ invoked |-> CallOn(name, varArgs),
    ok      |-> formatted.ok,
    native  |-> [i \in 1..Len(issued) |-> CallOn(issued[i].fn, issued[i].args)] ]

Promisified_call_callsTwice(name, varArgs, formatted) ==
  /\ op' = name
  /\ input' = varArgs
  /\ IF formatted.ok
     THEN /\ nativeCalls' = << [fn |-> name, args |-> formatted.val],
                               [fn |-> name, args |-> formatted.val] >>
          /\ settlements' = << >>
          /\ pc' = "dispatched"
     ELSE /\ nativeCalls' = << >>
          /\ settlements' = << Rejected("formatter", formatted.err) >>
          /\ pc' = "settled"
  /\ batch' = IF pc = "building"
              THEN [batch EXCEPT !.log = Append(@, Logged(name, varArgs, formatted, nativeCalls'))]
              ELSE batch
  /\ UNCHANGED <<wire, back, raw, reads, blobs, blobsAtDecode>>

Promisified_call(name, varArgs, formatted) ==
  /\ op' = name
  /\ input' = varArgs
  /\ IF formatted.ok
     THEN /\ nativeCalls' = << [fn |-> name, args |-> formatted.val] >>
          /\ settlements' = << >>
          /\ pc' = "dispatched"
     ELSE /\ nativeCalls' = << >>
          /\ settlements' = << Rejected("formatter", formatted.err) >>
          /\ pc' = "settled"
  /\ batch' = IF pc = "building"
              THEN [batch EXCEPT !.log = Append(@, Logged(name, varArgs, formatted, nativeCalls'))]
              ELSE batch
  /\ UNCHANGED <<wire, back, raw, reads, blobs, blobsAtDecode>>

(***************************************************************************)
(* Initial state and the operations                                        *)
(***************************************************************************)
Init ==
  /\ pc = "idle"
  /\ op = "none"
  /\ input = None
  /\ wire = None
  /\ back = None
  /\ nativeCalls = << >>
  /\ raw = None
  /\ settlements = << >>
  /\ reads = {}
  /\ blobs = InitialBlobs
  /\ blobsAtDecode = InitialBlobs
  /\ batch = NoBatch

HelperUnchanged ==
  <<nativeCalls, raw, settlements, reads, blobs, blobsAtDecode, batch>>

\* helpersForNative.makeMDataInfo(obj)
Call_makeMDataInfo ==
  /\ pc = "idle"
  /\ \E obj \in MDataInfoObjs :
       LET mDataInfo == makeMDataInfo(obj)
       IN  /\ input' = obj
           /\ IF mDataInfo.ok
              THEN wire' = mDataInfo.val /\ back' = back /\ pc' = "encoded"
              ELSE wire' = wire /\ back' = mDataInfo /\ pc' = "threw"
  /\ op' = "makeMDataInfo"
  /\ UNCHANGED HelperUnchanged

\* helpersForNative.makeMDataInfoObj on the struct just encoded
Call_makeMDataInfoObj ==
  /\ pc = "encoded"
  /\ op = "makeMDataInfo"
  /\ back' = makeMDataInfoObj(wire)
  /\ pc' = "decoded"
  /\ UNCHANGED <<op, input, wire, HelperUnchanged>>

\* helpersForNative.makeMDataInfoObj on a struct that came from elsewhere
Call_makeMDataInfoObj_on ==
  /\ pc = "idle"
  /\ \E st \in DecoderInputs :
       /\ wire' = st
       /\ back' = makeMDataInfoObj(st)
  /\ op' = "makeMDataInfoObj"
  /\ pc' = "decoded"
  /\ UNCHANGED <<input, HelperUnchanged>>

\* h.makePermissionSet(perms)
Call_makePermissionSet ==
  /\ pc = "idle"
  /\ \E perms \in PermissionSets \cup PartialPermissionSets :
       /\ input' = perms
       /\ wire' = makePermissionSet(perms)
  /\ op' = "makePermissionSet"
  /\ pc' = "encoded"
  /\ UNCHANGED <<back, HelperUnchanged>>

\* helpersForNative.readPermsSet on the struct just encoded
Call_readPermsSet ==
  /\ pc = "encoded"
  /\ op = "makePermissionSet"
  /\ back' = readPermsSet(wire)
  /\ op' = "readPermsSet"
  /\ pc' = "decoded"
  /\ UNCHANGED <<input, wire, HelperUnchanged>>

\* readPermissionSetPtr on a pointer to the struct just encoded
Call_readPermissionSetPtr ==
  /\ pc = "encoded"
  /\ op = "makePermissionSet"
  /\ back' = readPermissionSetPtr(<<Ptr(StructAddr, wire)>>)
  /\ op' = "readPermissionSetPtr"
  /\ pc' = "decoded"
  /\ UNCHANGED <<input, wire, HelperUnchanged>>

\* what the first output of a native call can be when readMDataInfoPtr gets
\* it: null, the NULL pointer, a pointer to a struct
MDataInfoPtrs ==
  { JsNull, Ptr(NULL, makeMDataInfo(PlainObj).val) }
  \cup { Ptr(StructAddr, st) : st \in WireStructs }

\* helpersForNative.readMDataInfoPtr(mDataInfoPtr)
Call_readMDataInfoPtr ==
  /\ pc = "idle"
  /\ \E ptr \in MDataInfoPtrs :
       /\ input' = <<ptr>>
       /\ back' = readMDataInfoPtr(<<ptr>>)
  /\ op' = "readMDataInfoPtr"
  /\ pc' = "decoded"
  /\ UNCHANGED <<wire, HelperUnchanged>>

App == "app"
Handles == {1, 2}
KeyArgs == { [isBuffer |-> TRUE, items |-> <<107, 49>>],
             [isBuffer |-> FALSE, items |-> <<107, 50, 51>>] }

\* helpersForNative.toMDataInfo(appPtr, mDataInfoObj, ...varArgs): wire is
\* the struct the second element of the result refers to
Call_toMDataInfo ==
  /\ pc = "idle"
  /\ \E obj \in CallObjs, varArgs \in {<< >>, <<1>>, <<2, 5>>} :
       LET formatted == toMDataInfo(App, obj, varArgs)
       IN  /\ input' = <<App, obj>> \o varArgs
           /\ back' = formatted
           /\ IF formatted.ok
              THEN wire' = formatted.val[2] /\ pc' = "returned"
              ELSE wire' = wire /\ pc' = "threw"
  /\ op' = "toMDataInfo"
  /\ UNCHANGED HelperUnchanged

api_mdata_info_new_private ==
  /\ pc = "idle"
  /\ \E xorname \in ByteArgs(XOR_NAME_size), tag \in Tags,
          secKey \in ByteArgs(SYM_KEYBYTES_size),
          nonce \in ByteArgs(SYM_NONCEBYTES_size) :
         Promisified_call("mdata_info_new_private", <<xorname, tag, secKey, nonce>>,
                          translatePrivMDInput(xorname, tag, secKey, nonce))

api_mdata_info_random_public ==
  /\ pc = "idle"
  /\ \E tag \in Tags :
         Promisified_call("mdata_info_random_public", <<tag>>, Return(<<tag>>))

api_mdata_info_random_private ==
  /\ pc = "idle"
  /\ \E tag \in Tags :
         Promisified_call("mdata_info_random_private", <<tag>>, Return(<<tag>>))

api_mdata_info_serialise ==
  /\ pc = "idle"
  /\ \E obj \in CallObjs :
         Promisified_call("mdata_info_serialise", <<obj>>,
                          firstToMDataInfo(obj, << >>))

api_mdata_info_decrypt ==
  /\ pc = "idle"
  /\ \E obj \in CallObjs, data \in KeyArgs :
         Promisified_call("mdata_info_decrypt", <<obj, data>>,
                          firstToMDataInfoLastToBuffer(<<obj, data>>))

api_mdata_serialised_size ==
  /\ pc = "idle"
  /\ \E obj \in CallObjs :
         Promisified_call("mdata_serialised_size", <<App, obj>>,
                          toMDataInfo(App, obj, << >>))

api_mdata_get_value ==
  /\ pc = "idle"
  /\ \E obj \in CallObjs, key \in KeyArgs :
         LET mDataInfo == toMDataInfo(App, obj, <<key>>)
         IN  Promisified_call("mdata_get_value", <<App, obj, key>>,
                              IF mDataInfo.ok
                              THEN strToBuffer(mDataInfo.val[1], mDataInfo.val[2],
                                               SubSeq(mDataInfo.val, 3,
                                                      Len(mDataInfo.val)))
                              ELSE mDataInfo)

api_mdata_entries_get ==
  /\ pc = "idle"
  /\ \E h \in Handles, key \in KeyArgs :
         Promisified_call("mdata_entries_get", <<App, h, key>>,
                          strToBuffer(App, h, <<key>>))

api_mdata_permissions_get ==
  /\ pc = "idle"
  /\ \E h \in Handles, signKey \in Handles :
         Promisified_call("mdata_permissions_get", <<App, h, signKey>>,
                          Return(<<App, h, signKey>>))

api_mdata_list_user_permissions ==
  /\ pc = "idle"
  /\ \E obj \in CallObjs, signKey \in Handles :
         Promisified_call("mdata_list_user_permissions", <<App, obj, signKey>>,
                          toMDataInfo(App, obj, <<signKey>>))

api_mdata_permissions_insert ==
  /\ pc = "idle"
  /\ \E h \in Handles, signKey \in Handles, perms \in PartialPermissionSets :
         Promisified_call("mdata_permissions_insert", <<App, h, signKey, perms>>,
                          lastToPermissionSet(<<App, h, signKey, perms>>))

api_mdata_list_permission_sets ==
  /\ pc = "idle"
  /\ \E h \in Handles :
         Promisified_call("mdata_list_permission_sets", <<App, h>>, Return(<<App, h>>))

api_mdata_list_entries ==
  /\ pc = "idle"
  /\ \E h \in Handles :
         Promisified_call("mdata_list_entries", <<App, h>>, Return(<<App, h>>))

api_mdata_list_keys ==
  /\ pc = "idle"
  /\ \E obj \in CallObjs :
         Promisified_call("mdata_list_keys", <<App, obj>>, toMDataInfo(App, obj, << >>))

api_mdata_list_values ==
  /\ pc = "idle"
  /\ \E obj \in CallObjs :
         Promisified_call("mdata_list_values", <<App, obj>>, toMDataInfo(App, obj, << >>))

\* ref.alloc(UserMetadata, metadata): the metadata laid out as the struct
api_mdata_encode_metadata ==
  /\ pc = "idle"
  /\ \E metadata \in { [name |-> "n", description |-> "d"] } :
         Promisified_call("mdata_encode_metadata", <<metadata>>, Return(<<metadata>>))

\* keys and values of entry actions: a Buffer, an array of numbers, a
\* string with characters of one, two and three bytes, a ref-array instance;
\* an empty Buffer, a string with a character of four bytes (U+1F600) and a
\* surrogate on its own
EntryKeys ==
  KeyArgs \cup { [isBuffer |-> FALSE, chars |-> <<107, 233, 8364>>],
                 [isBuffer |-> FALSE, buffer |-> <<1, 2, 3>>] }
EntryValues ==
  { [isBuffer |-> TRUE, items |-> << >>],
    [isBuffer |-> FALSE, chars |-> <<118, 128512, 55296>>] }
Versions == {3, 5}

api_mdata_info_encrypt_entry_key ==
  /\ pc = "idle"
  /\ \E obj \in CallObjs, data \in KeyArgs :
         Promisified_call("mdata_info_encrypt_entry_key", <<obj, data>>,
                          firstToMDataInfoLastToBuffer(<<obj, data>>))

api_mdata_info_encrypt_entry_value ==
  /\ pc = "idle"
  /\ \E obj \in CallObjs, data \in KeyArgs :
         Promisified_call("mdata_info_encrypt_entry_value", <<obj, data>>,
                          firstToMDataInfoLastToBuffer(<<obj, data>>))

api_mdata_info_deserialise ==
  /\ pc = "idle"
  /\ \E data \in EntryKeys :
         Promisified_call("mdata_info_deserialise", <<data>>,
                          bufferLastEntry(<<data>>))

api_mdata_permissions_new ==
  /\ pc = "idle"
  /\ Promisified_call("mdata_permissions_new", <<App>>, Return(<<App>>))

api_mdata_permissions_len ==
  /\ pc = "idle"
  /\ \E h \in Handles :
         Promisified_call("mdata_permissions_len", <<App, h>>, Return(<<App, h>>))

api_mdata_permissions_free ==
  /\ pc = "idle"
  /\ \E h \in Handles :
         Promisified_call("mdata_permissions_free", <<App, h>>, Return(<<App, h>>))

api_mdata_put ==
  /\ pc = "idle"
  /\ \E obj \in CallObjs, permissions \in Handles, entries \in Handles :
         Promisified_call("mdata_put", <<App, obj, permissions, entries>>,
                          toMDataInfo(App, obj, <<permissions, entries>>))

api_mdata_get_version ==
  /\ pc = "idle"
  /\ \E obj \in CallObjs :
         Promisified_call("mdata_get_version", <<App, obj>>,
                          toMDataInfo(App, obj, << >>))

api_mdata_list_permissions ==
  /\ pc = "idle"
  /\ \E obj \in CallObjs :
         Promisified_call("mdata_list_permissions", <<App, obj>>,
                          toMDataInfo(App, obj, << >>))

\* the input transform written in the table (lines 414-418)
set_user_permissions_formatter(appPtr, mDataInfoObj, signKeyHandle, permSet, version) ==
  LET permSetObj == makePermissionSet(permSet)
      mDataInfo == makeMDataInfo(mDataInfoObj)
  IN  IF mDataInfo.ok
      THEN Return(<<appPtr, mDataInfo.val, signKeyHandle, permSetObj, version>>)
      ELSE mDataInfo

api_mdata_set_user_permissions ==
  /\ pc = "idle"
  /\ \E obj \in CallObjs, signKey \in Handles,
          perms \in PartialPermissionSets, version \in Versions :
         Promisified_call("mdata_set_user_permissions",
                          <<App, obj, signKey, perms, version>>,
                          set_user_permissions_formatter(App, obj, signKey,
                                                         perms, version))

api_mdata_del_user_permissions ==
  /\ pc = "idle"
  /\ \E obj \in CallObjs, signKey \in Handles, version \in Versions :
         Promisified_call("mdata_del_user_permissions",
                          <<App, obj, signKey, version>>,
                          toMDataInfo(App, obj, <<signKey, version>>))

api_mdata_entries ==
  /\ pc = "idle"
  /\ \E obj \in CallObjs :
         Promisified_call("mdata_entries", <<App, obj>>,
                          toMDataInfo(App, obj, << >>))

api_mdata_entries_new ==
  /\ pc = "idle"
  /\ Promisified_call("mdata_entries_new", <<App>>, Return(<<App>>))

api_mdata_entries_insert ==
  /\ pc = "idle"
  /\ \E h \in Handles, key \in EntryKeys, value \in EntryValues :
         Promisified_call("mdata_entries_insert", <<App, h, key, value>>,
                          strToBuffer(App, h, <<key, value>>))

api_mdata_entries_len ==
  /\ pc = "idle"
  /\ \E h \in Handles :
         Promisified_call("mdata_entries_len", <<App, h>>, Return(<<App, h>>))

api_mdata_entries_free ==
  /\ pc = "idle"
  /\ \E h \in Handles :
         Promisified_call("mdata_entries_free", <<App, h>>, Return(<<App, h>>))

api_mdata_entry_actions_new ==
  /\ pc = "idle"
  /\ Promisified_call("mdata_entry_actions_new", <<App>>, Return(<<App>>))

\* the caller takes the handle the engine returned and goes on to use it
BatchBegins ==
  /\ pc = "settled"
  /\ op = "mdata_entry_actions_new"
  /\ raw.code = 0
  /\ batch' = [handle |-> raw.out[1], log |-> << >>]
  /\ pc' = "building"
  /\ op' = "none"
  /\ input' = None
  /\ nativeCalls' = << >>
  /\ raw' = None
  /\ settlements' = << >>
  /\ blobs' = InitialBlobs
  /\ blobsAtDecode' = InitialBlobs
  /\ UNCHANGED <<wire, back, reads>>

api_mdata_entry_actions_insert ==
  /\ pc = "building"
  /\ Len(batch.log) < MaxCalls
  /\ \E key \in EntryKeys, value \in EntryValues :
         Promisified_call("mdata_entry_actions_insert",
                          <<App, batch.handle, key, value>>,
                          strToBuffer(App, batch.handle, <<key, value>>))

api_mdata_entry_actions_update ==
  /\ pc = "building"
  /\ Len(batch.log) < MaxCalls
  /\ \E key \in EntryKeys, value \in EntryValues, version \in Versions :
         Promisified_call("mdata_entry_actions_update",
                          <<App, batch.handle, key, value, version>>,
                          strToBufferButLastEntry(App, batch.handle,
                                                  <<key, value, version>>))

api_mdata_entry_actions_delete ==
  /\ pc = "building"
  /\ Len(batch.log) < MaxCalls
  /\ \E key \in EntryKeys, version \in Versions :
         Promisified_call("mdata_entry_actions_delete",
                          <<App, batch.handle, key, version>>,
                          strToBufferButLastEntry(App, batch.handle,
                                                  <<key, version>>))

api_mdata_mutate_entries ==
  /\ pc = "building"
  /\ Len(batch.log) < MaxCalls
  /\ \E obj \in CallObjs :
         Promisified_call("mdata_mutate_entries", <<App, obj, batch.handle>>,
                          toMDataInfo(App, obj, <<batch.handle>>))

api_mdata_entry_actions_free ==
  /\ pc = "building"
  /\ Promisified_call("mdata_entry_actions_free", <<App, batch.handle>>,
                      Return(<<App, batch.handle>>))

\* the call has settled and the caller goes on with the same handle
BatchContinues ==
  /\ pc = "settled"
  /\ batch # NoBatch
  /\ op # "mdata_entry_actions_free"
  /\ pc' = "building"
  /\ op' = "none"
  /\ input' = None
  /\ nativeCalls' = << >>
  /\ raw' = None
  /\ settlements' = << >>
  /\ blobs' = InitialBlobs
  /\ blobsAtDecode' = InitialBlobs
  /\ UNCHANGED <<wire, back, reads, batch>>

\* the engine completes the native call: the callback of Promisified runs
NativeCallback ==
  /\ pc = "dispatched"
  /\ \E code \in {0} \cup ErrorCodes :
       \E out \in IF code = 0 THEN Outputs(op) ELSE { << >> } :
         /\ raw' = [code |-> code, out |-> out]
         /\ settlements' = settlements \o Promisified_settle(op, code, out)
         /\ reads' = IF code = 0 THEN after(op, out).reads ELSE {}
  /\ blobsAtDecode' = blobs
  /\ pc' = "settled"
  /\ UNCHANGED <<op, input, wire, back, nativeCalls, blobs, batch>>

\* after the callback has returned the engine reuses or releases a buffer
EngineReuses ==
  /\ pc = "settled"
  /\ batch = NoBatch   \* a call on an entry-actions handle returns no memory
  /\ \E a \in BlobAddrs :
       /\ blobs[a] # Overwritten(blobs[a])
       /\ blobs' = [blobs EXCEPT ![a] = Overwritten(blobs[a])]
  /\ UNCHANGED <<pc, op, input, wire, back, nativeCalls, raw, settlements,
                 reads, blobsAtDecode, batch>>

\* the caller is done with the result; the next operation starts afresh
Done ==
  /\ pc \in {"decoded", "returned", "threw", "settled"}
  /\ pc' = "idle"
  /\ op' = "none"
  /\ input' = None
  /\ wire' = None
  /\ back' = None
  /\ nativeCalls' = << >>
  /\ raw' = None
  /\ settlements' = << >>
  /\ reads' = {}
  /\ blobs' = InitialBlobs
  /\ blobsAtDecode' = InitialBlobs
  /\ batch' = NoBatch

Next ==
  \/ Call_makeMDataInfo
  \/ Call_makeMDataInfoObj
  \/ Call_makeMDataInfoObj_on
  \/ Call_makePermissionSet
  \/ Call_readPermsSet
  \/ Call_readPermissionSetPtr
  \/ api_mdata_info_new_private
  \/ api_mdata_info_random_public
  \/ api_mdata_info_random_private
  \/ api_mdata_info_serialise
  \/ api_mdata_info_decrypt
  \/ api_mdata_serialised_size
  \/ api_mdata_get_value
  \/ api_mdata_entries_get
  \/ api_mdata_permissions_get
  \/ api_mdata_list_user_permissions
  \/ api_mdata_permissions_insert
  \/ api_mdata_list_permission_sets
  \/ api_mdata_list_entries
  \/ api_mdata_list_keys
  \/ api_mdata_list_values
  \/ api_mdata_encode_metadata
  \/ api_mdata_info_encrypt_entry_key
  \/ api_mdata_info_encrypt_entry_value
  \/ api_mdata_info_deserialise
  \/ api_mdata_permissions_new
  \/ api_mdata_permissions_len
  \/ api_mdata_permissions_free
  \/ api_mdata_put
  \/ api_mdata_get_version
  \/ api_mdata_list_permissions
  \/ api_mdata_set_user_permissions
  \/ api_mdata_del_user_permissions
  \/ api_mdata_entries
  \/ api_mdata_entries_new
  \/ api_mdata_entries_insert
  \/ api_mdata_entries_len
  \/ api_mdata_entries_free
  \/ Call_readMDataInfoPtr
  \/ Call_toMDataInfo
  \/ api_mdata_entry_actions_new
  \/ BatchBegins
  \/ api_mdata_entry_actions_insert
  \/ api_mdata_entry_actions_update
  \/ api_mdata_entry_actions_delete
  \/ api_mdata_mutate_entries
  \/ api_mdata_entry_actions_free
  \/ BatchContinues
  \/ NativeCallback
  \/ EngineReuses
  \/ Done

Spec == Init /\ [][Next]_vars

(***************************************************************************)
(* Properties                                                              *)
(***************************************************************************)
\* the native call was issued and its completion has settled the promise
Completed == pc = "settled" /\ Len(nativeCalls) = 1

\* the helper makeMDataInfo has returned a struct for input
Encoded == pc \in {"encoded", "decoded"} /\ op = "makeMDataInfo"

\* the helper makeMDataInfo has returned or thrown
EncodeEnded == pc \in {"encoded", "decoded", "threw"} /\ op = "makeMDataInfo"

Zeros(size) == [i \in 1..size |-> 0]

\* object y has in every field what object x has, byte for byte
FieldByField(y, x) ==
  /\ BytesOf(y.name) = BytesOf(x.name)
  /\ y.typeTag = x.typeTag
  /\ y.has_enc_info = x.has_enc_info
  /\ BytesOf(y.enc_key) = BytesOf(x.enc_key)
  /\ BytesOf(y.enc_nonce) = BytesOf(x.enc_nonce)
  /\ y.has_new_enc_info = x.has_new_enc_info
  /\ BytesOf(y.new_enc_key) = BytesOf(x.new_enc_key)
  /\ BytesOf(y.new_enc_nonce) = BytesOf(x.new_enc_nonce)

\* C1: for every valid MutableDataInfo object x, makeMDataInfo(x) returns a
\* struct and makeMDataInfoObj applied to it returns an object equal to x in
\* every field, whatever the two flags are and also when the new key
\* material differs from the old
C1_RoundTrip ==
  (op = "makeMDataInfo" /\ pc \in {"decoded", "threw"} /\ ValidMDataInfoObj(input))
    => (pc = "decoded" /\ back.ok /\ FieldByField(back.val, input))

\* C2: for an object whose name has the 32 bytes of an XOR name and whose
\* type tag is an unsigned integer, the struct makeMDataInfo returns has the name,
\* the type tag and both flags of the object, and a pair whose flag is false
\* is all-zero of the fixed sizes on the wire, whatever the object carries
\* in it
C2_CopiesAndZeroFills ==
  ( /\ Encoded
    /\ Len(BytesOf(input.name)) = XOR_NAME_size
    /\ IsUnsignedInteger(input.typeTag) ) =>
    /\ wire.name = BytesOf(input.name)
    /\ wire.type_tag = input.typeTag
    /\ wire.has_enc_info = input.has_enc_info
    /\ wire.has_new_enc_info = input.has_new_enc_info
    /\ ~input.has_enc_info =>
         /\ wire.enc_key = Zeros(SYM_KEYBYTES_size)
         /\ wire.enc_nonce = Zeros(SYM_NONCEBYTES_size)
    /\ ~input.has_new_enc_info =>
         /\ wire.new_enc_key = Zeros(SYM_KEYBYTES_size)
         /\ wire.new_enc_nonce = Zeros(SYM_NONCEBYTES_size)

\* an object with both flags false, type tag 15000, a non-zero key given
\* as a Buffer and a non-zero new nonce one byte too long was encoded to
\* its name, tag 15000 and four zero-filled fields
C2_Witness ==
  /\ pc = "encoded" /\ op = "makeMDataInfo"
  /\ ~input.has_enc_info /\ ~input.has_new_enc_info
  /\ input.typeTag = [kind |-> "integer", n |-> 15000]
  /\ input.enc_key = [isBuffer |-> TRUE, items |-> Fill(SYM_KEYBYTES_size, 1)]
  /\ input.new_enc_nonce =
       [isBuffer |-> FALSE, items |-> Fill(SYM_NONCEBYTES_size + 1, 1)]
  /\ wire.name = BytesOf(input.name)
  /\ wire.type_tag.n = 15000
  /\ ~wire.has_enc_info /\ ~wire.has_new_enc_info
  /\ wire.enc_key = Zeros(SYM_KEYBYTES_size)
  /\ wire.enc_nonce = Zeros(SYM_NONCEBYTES_size)
  /\ wire.new_enc_key = Zeros(SYM_KEYBYTES_size)
  /\ wire.new_enc_nonce = Zeros(SYM_NONCEBYTES_size)

ValidationErrors == {"TYPE_TAG_NAN", "XOR_NAME", "INVALID_SEC_KEY", "NONCE"}

\* the promise was rejected by the input transform and nothing was sent
RejectedBeforeSend ==
  /\ pc = "settled"
  /\ Len(nativeCalls) = 0
  /\ Len(settlements) = 1
  /\ settlements[1].kind = "failed"
  /\ settlements[1].from = "formatter"
  /\ settlements[1].err.error \in ValidationErrors

Bytes(v) == [i \in 1..Len(v.items) |-> v.items[i] % 256]

\* C3: in mdata_info_new_private a name, key or nonce whose byte length is
\* not the fixed size, Buffer or not, makes the input transform raise a
\* validation error and no native call is issued; with the three sizes right
\* and an integer tag the native call gets [name, tag, key, nonce]
C3_PrivateInputLengths ==
  (op = "mdata_info_new_private" /\ pc # "idle") =>
    LET sizesRight == /\ Len(input[1].items) = XOR_NAME_size
                      /\ Len(input[3].items) = SYM_KEYBYTES_size
                      /\ Len(input[4].items) = SYM_NONCEBYTES_size
    IN  /\ ~sizesRight => RejectedBeforeSend
        /\ (sizesRight /\ Number_isInteger(input[2])) =>
             /\ Len(nativeCalls) = 1
             /\ nativeCalls[1].fn = "mdata_info_new_private"
             /\ nativeCalls[1].args =
                  <<Bytes(input[1]), input[2], Bytes(input[3]), Bytes(input[4])>>

\* a 33-byte name given as a Buffer, with everything else right, was
\* rejected with the XOR-name error before any native call
C3_Witness ==
  /\ op = "mdata_info_new_private" /\ pc = "settled"
  /\ input[1].isBuffer /\ Len(input[1].items) = XOR_NAME_size + 1
  /\ Number_isInteger(input[2])
  /\ Len(input[3].items) = SYM_KEYBYTES_size
  /\ Len(input[4].items) = SYM_NONCEBYTES_size
  /\ Len(nativeCalls) = 0
  /\ settlements[1].kind = "failed"
  /\ settlements[1].err = makeError("XOR_NAME", XOR_NAME_size)

\* a key or nonce that is present (its flag is true) and not of the fixed size
WrongSizedEncInfo(x) ==
  \/ x.has_enc_info /\ ( \/ Len(BytesOf(x.enc_key)) # SYM_KEYBYTES_size
                         \/ Len(BytesOf(x.enc_nonce)) # SYM_NONCEBYTES_size )
  \/ x.has_new_enc_info /\ ( \/ Len(BytesOf(x.new_enc_key)) # SYM_KEYBYTES_size
                             \/ Len(BytesOf(x.new_enc_nonce)) # SYM_NONCEBYTES_size )

\* api entries whose input transform encodes the MutableDataInfo in input[i]
EncodesFirst ==
  { "mdata_info_encrypt_entry_key", "mdata_info_encrypt_entry_value",
    "mdata_info_decrypt", "mdata_info_serialise" }
EncodesSecond ==
  { "mdata_serialised_size", "mdata_put", "mdata_get_version",
    "mdata_get_value", "mdata_list_keys",
    "mdata_list_values", "mdata_mutate_entries", "mdata_list_permissions",
    "mdata_list_user_permissions", "mdata_set_user_permissions",
    "mdata_del_user_permissions", "mdata_entries" }

EncodedObj ==
  IF op \in EncodesFirst THEN input[1] ELSE input[2]

\* C4: encoding an object whose present key or nonce is not of the fixed size
\* fails with the typed validation error: makeMDataInfo, and toMDataInfo
\* called on its own, throw that error and return no struct for it, and an
\* api entry that encodes it is rejected with that error before anything is
\* sent
C4_WrongSizeRejected ==
  /\ (EncodeEnded /\ WrongSizedEncInfo(input))
       => (pc = "threw" /\ back.err.error \in ValidationErrors)
  /\ (op = "toMDataInfo" /\ WrongSizedEncInfo(input[2]))
       => (pc = "threw" /\ back.err.error \in ValidationErrors)
  /\ (pc \notin {"idle", "building"} /\ op \in EncodesFirst \cup EncodesSecond
        /\ WrongSizedEncInfo(EncodedObj)) => RejectedBeforeSend

\* the api entries that take a type tag, and the tag one was called with
TagEntries ==
  { "mdata_info_new_private", "mdata_info_random_public",
    "mdata_info_random_private" } \cup EncodesFirst \cup EncodesSecond
TagOfCall ==
  CASE op = "mdata_info_new_private" -> input[2]
    [] op \in {"mdata_info_random_public", "mdata_info_random_private"} -> input[1]
    [] OTHER -> EncodedObj.typeTag

\* C5: a type tag that is no integer raises the validation error before any
\* native call in every api entry that takes a type tag
C5_NonIntegerTagRejected ==
  (pc \notin {"idle", "building"} /\ op \in TagEntries /\ ~Number_isInteger(TagOfCall))
    => (RejectedBeforeSend /\ settlements[1].err.error = "TYPE_TAG_NAN")

\* what the permission decoder just called gave back
DecodedPermissionSet ==
  IF op = "readPermissionSetPtr" THEN back.val ELSE back

\* C6: for each of the 32 PermissionSet objects p, decoding the struct that
\* encodes p returns p, through readPermsSet and through readPermissionSetPtr
C6_PermissionRoundTrip ==
  (pc = "decoded" /\ op \in {"readPermsSet", "readPermissionSetPtr"}
     /\ DOMAIN input = Capabilities)
    => ( /\ DOMAIN DecodedPermissionSet = Capabilities
         /\ \A c \in Capabilities : DecodedPermissionSet[c] = input[c] )

\* the promise was resolved, and v is the value it was resolved with
Succeeded == Len(settlements) = 1 /\ settlements[1].kind = "succeeded"
Value == settlements[1].val

\* C7: when the engine reports length 0 to one of the four array-returning
\* entries, the output transform returns an empty list and reinterprets no
\* pointer, whatever the pointer it was given (null or not)
C7_EmptyArrayNoDeref ==
  (Completed /\ op \in ArrayEntries /\ raw.code = 0 /\ raw.out[2] = 0)
    => (Succeeded /\ Value = << >> /\ reads = {})

\* mdata_list_keys completed with length 0 and a pointer that is not null
C7_Witness ==
  /\ Completed /\ op = "mdata_list_keys"
  /\ raw.code = 0 /\ raw.out[2] = 0 /\ raw.out[1].addr # NULL
  /\ Succeeded /\ Value = << >> /\ reads = {}

\* the byte payloads of variable length in the value an entry resolved with
Payloads ==
  CASE op = "mdata_list_entries" ->
         { Value[i].key : i \in 1..Len(Value) }
         \cup { Value[i].value.buf : i \in 1..Len(Value) }
    [] op = "mdata_list_keys" -> { Value[i] : i \in 1..Len(Value) }
    [] op = "mdata_list_values" -> { Value[i].buf : i \in 1..Len(Value) }
    [] op \in ValueEntries -> { Value.buf }
    [] OTHER -> {}

\* C8: every variable-length payload a decoder returned is a copy: whatever
\* the engine does to its own buffers after the decode call, the payload
\* still shows the bytes it showed when it was decoded
C8_PayloadsAreCopies ==
  (Completed /\ raw.code = 0 /\ Succeeded) =>
    \A b \in Payloads : Contents(b, blobs) = Contents(b, blobsAtDecode)

\* the engine passed a null pointer where the entry promises a result
NullOutput ==
  \/ op \in ValueEntries /\ ref_isNull(raw.out[1])
  \/ op \in MDataInfoPtrEntries /\ raw.out[1].addr = NULL
  \/ op = "mdata_encode_metadata" /\ ref_isNull(raw.out[1])

\* C9: a null pointer in the engine's output where a result was promised
\* makes the operation settle as failed with a DecodingError, never as
\* succeeded
C9_NullOutputFails ==
  (Completed /\ raw.code = 0 /\ NullOutput)
    => ( /\ Len(settlements) = 1
         /\ settlements[1].kind = "failed"
         /\ settlements[1].from = "decoder"
         /\ settlements[1].err.error = "DecodingError" )

\* C10 as stated: every invocation of an api entry settles exactly once:
\* never more than one settlement, none before the completion, one after it;
\* a completion with code 0 resolves with the transformed outputs (the raw
\* outputs where the entry has no transform, one element per record for the
\* array entries), one with another code rejects with an error carrying it
C10_CodeZeroSucceeds ==
  /\ Len(settlements) <= 1
  /\ pc = "dispatched" => Len(settlements) = 0
  /\ pc = "settled" => Len(settlements) = 1
  /\ Completed =>
       /\ raw.code = 0 =>
            /\ settlements[1].kind = "succeeded"
            /\ op \in {"mdata_serialised_size", "mdata_permissions_insert"}
                 => Value = raw.out
            /\ op \in ArrayEntries => Len(Value) = raw.out[2]
       /\ raw.code # 0 =>
            /\ settlements[1].kind = "failed"
            /\ settlements[1].from = "native"
            /\ settlements[1].err.error_code = raw.code

\* C10 as amended: every invocation of an api entry settles exactly once:
\* never more than one settlement, none before the completion, one after it;
\* a completion with code 0 resolves with what the output transform returns
\* (the raw outputs where the entry has no transform, one element per record
\* for the array entries) and, when the output transform throws, rejects
\* with the error it threw; a completion with another code rejects with an
\* error carrying the code
C10_SettlesExactlyOnce ==
  /\ Len(settlements) <= 1
  /\ pc = "dispatched" => Len(settlements) = 0
  /\ pc = "settled" => Len(settlements) = 1
  /\ Completed =>
       /\ (raw.code = 0 /\ after(op, raw.out).ok) =>
            /\ settlements[1].kind = "succeeded"
            /\ op \in {"mdata_serialised_size", "mdata_permissions_insert"}
                 => Value = raw.out
            /\ op \in ArrayEntries => Len(Value) = raw.out[2]
       /\ (raw.code = 0 /\ ~after(op, raw.out).ok) =>
            /\ settlements[1].kind = "failed"
            /\ settlements[1].from = "decoder"
            /\ settlements[1].err = after(op, raw.out).err
       /\ raw.code # 0 =>
            /\ settlements[1].kind = "failed"
            /\ settlements[1].from = "native"
            /\ settlements[1].err.error_code = raw.code

\* mdata_info_deserialise completed with code 0 and the NULL pointer and was
\* rejected once, by the output transform
C10_Witness ==
  /\ Completed /\ op = "mdata_info_deserialise"
  /\ raw.code = 0 /\ raw.out[1].addr = NULL
  /\ Len(settlements) = 1
  /\ settlements[1].kind = "failed" /\ settlements[1].from = "decoder"

\* makeMDataInfoObj has returned an object for the struct in wire
DecodedMDataInfo ==
  pc = "decoded" /\ op \in {"makeMDataInfo", "makeMDataInfoObj"} /\ back.ok

\* C14: the decoded has_enc_info and has_new_enc_info are exactly the flags
\* the wire struct transports, whatever the keys are: a zero-filled key with
\* its flag true decodes with the flag true, a non-zero key with its flag
\* false decodes with the flag false
C14_FlagsAsTransported ==
  DecodedMDataInfo =>
    /\ back.val.has_enc_info = wire.has_enc_info
    /\ back.val.has_new_enc_info = wire.has_new_enc_info

\* a struct with a zero-filled enc_key flagged true and a non-zero
\* new_enc_key flagged false was decoded with those flags
C14_Witness ==
  /\ pc = "decoded" /\ op = "makeMDataInfoObj" /\ back.ok
  /\ Has(wire, "enc_key")
  /\ wire.has_enc_info /\ wire.enc_key = Zeros(SYM_KEYBYTES_size)
  /\ ~wire.has_new_enc_info /\ wire.new_enc_key # Zeros(SYM_KEYBYTES_size)
  /\ back.val.has_enc_info /\ ~back.val.has_new_enc_info

\* the error of the first check of translatePrivMDInput that input fails, in
\* the order type tag, XOR name, symmetric key, nonce
FirstFailingCheck ==
  IF ~Number_isInteger(input[2]) THEN "TYPE_TAG_NAN"
  ELSE IF Len(input[1].items) # XOR_NAME_size THEN "XOR_NAME"
  ELSE IF Len(input[3].items) # SYM_KEYBYTES_size THEN "INVALID_SEC_KEY"
  ELSE IF Len(input[4].items) # SYM_NONCEBYTES_size THEN "NONCE"
  ELSE "none"

\* C15: when several arguments of mdata_info_new_private are invalid at once
\* only the error of the first failing check is raised, the checks running in
\* the order type tag, XOR name, symmetric key, nonce
C15_FirstErrorWins ==
  (op = "mdata_info_new_private" /\ pc # "idle") =>
    IF FirstFailingCheck = "none"
    THEN Len(nativeCalls) = 1
    ELSE /\ pc = "settled"
         /\ Len(nativeCalls) = 0
         /\ Len(settlements) = 1
         /\ settlements[1].kind = "failed"
         /\ settlements[1].from = "formatter"
         /\ settlements[1].err.error = FirstFailingCheck

\* a fractional tag together with a 31-byte name, a 33-byte key and a
\* 25-byte nonce raised the type-tag error
C15_Witness ==
  /\ op = "mdata_info_new_private" /\ pc = "settled"
  /\ ~Number_isInteger(input[2])
  /\ Len(input[1].items) = XOR_NAME_size - 1
  /\ Len(input[3].items) = SYM_KEYBYTES_size + 1
  /\ Len(input[4].items) = SYM_NONCEBYTES_size + 1
  /\ settlements[1].err.error = "TYPE_TAG_NAN"

\* an array-returning entry completed with the record array Records of
\* length n > 0
ArrayDecoded ==
  /\ Completed /\ op \in ArrayEntries
  /\ raw.code = 0 /\ raw.out[2] > 0
Records == deref(raw.out[1])

\* payload b shows the len bytes the engine held at ptr when it was decoded
ShowsBytes(b, ptr, len) ==
  /\ b.len = len
  /\ Contents(b, blobsAtDecode) = Memory(blobsAtDecode, ptr, len)

\* value object v is what the entry op builds from record r alone
BuiltFrom(v, r) ==
  CASE op = "mdata_list_entries" ->
         /\ ShowsBytes(v.key, r.key.val_ptr, r.key.val_len)
         /\ ShowsBytes(v.value.buf, r.value.content_ptr, r.value.content_len)
         /\ v.value.version = r.value.entry_version
         /\ r.value.content_len = 0 => v.value.buf = Buffer_empty
    [] op = "mdata_list_keys" -> ShowsBytes(v, r.val_ptr, r.val_len)
    [] op = "mdata_list_values" ->
         /\ ShowsBytes(v.buf, r.content_ptr, r.content_len)
         /\ v.version = r.entry_version
    [] op = "mdata_list_permission_sets" ->
         /\ v.signKey = r.user_h
         /\ \A c \in Capabilities : v.permSet[c] = r.perm_set[c]

\* the addresses mdata_list_entries has to reinterpret: the array, every key,
\* and the content of every record whose content_len is not 0
EntryAddrs ==
  {raw.out[1].addr}
    \cup { Records[i].key.val_ptr : i \in 1..Len(Records) }
    \cup { Records[i].value.content_ptr :
             i \in { j \in 1..Len(Records) : Records[j].value.content_len # 0 } }

\* C13: when the engine reports length n > 0 to an array-returning entry, the
\* output transform returns exactly n value objects in record order, the
\* i-th built from the i-th record only; for entries the key has val_len
\* bytes, the value content_len bytes and version entry_version, and a record
\* with content_len 0 gives an empty buffer whose content_ptr is not read
C13_OneObjectPerRecord ==
  ArrayDecoded =>
    /\ Succeeded
    /\ Len(Value) = raw.out[2]
    /\ \A i \in 1..raw.out[2] : BuiltFrom(Value[i], Records[i])
    /\ op = "mdata_list_entries" =>
         \A i \in 1..raw.out[2] :
           Records[i].value.content_len = 0 =>
             (Records[i].value.content_ptr \in reads
                => Records[i].value.content_ptr \in EntryAddrs)

\* the native calls issued on the handle in use, in order
RECURSIVE Issued(_)
Issued(log) ==
  IF log = << >> THEN << >>
  ELSE Issued(SubSeq(log, 1, Len(log) - 1)) \o log[Len(log)].native

\* one insert, one update with version 3, one delete with version 5, then
\* the apply call, all on the handle in use
InsertUpdateDeleteApply ==
  /\ Len(batch.log) = 4
  /\ batch.log[1].invoked.fn = "mdata_entry_actions_insert"
  /\ batch.log[2].invoked.fn = "mdata_entry_actions_update"
  /\ batch.log[2].invoked.version = 3
  /\ batch.log[3].invoked.fn = "mdata_entry_actions_delete"
  /\ batch.log[3].invoked.version = 5
  /\ batch.log[4].invoked.fn = "mdata_mutate_entries"
  /\ batch.log[4].ok

\* C11: every call made on an entry-actions handle issues exactly one native
\* call, of its own function and carrying that handle, at the time it is
\* made (none when its input transform throws, which only the apply's can:
\* it encodes the MutableDataInfo); so a batch of one insert, one update
\* (version 3) and one delete (version 5) that is then applied issues four
\* native calls on the handle, the three actions first and
\* mdata_mutate_entries once and last, and no action issues an apply
C11_OneApplyPerBatch ==
  LET calls == Issued(batch.log)
      applies == { i \in 1..Len(calls) : calls[i].fn = "mdata_mutate_entries" }
  IN  /\ \A i \in 1..Len(batch.log) :
           IF batch.log[i].ok
           THEN /\ Len(batch.log[i].native) = 1
                /\ batch.log[i].native[1] = batch.log[i].invoked
                /\ batch.log[i].native[1].handle = batch.handle
           ELSE /\ Len(batch.log[i].native) = 0
                /\ batch.log[i].invoked.fn = "mdata_mutate_entries"
      /\ pc = "dispatched" /\ batch # NoBatch =>
           /\ Len(nativeCalls) = 1
           /\ nativeCalls[1].fn = op
           /\ HandleArg(op, nativeCalls[1].args) = batch.handle
      /\ InsertUpdateDeleteApply =>
           /\ Len(calls) = 4
           /\ applies = {4}
           /\ \A i \in 1..4 : calls[i].handle = batch.handle

\* the apply call of a batch of one insert, one update with version 3 and one
\* delete with version 5 has been issued, the fourth native call on the
\* handle
C11_Witness ==
  /\ InsertUpdateDeleteApply
  /\ pc = "dispatched" /\ op = "mdata_mutate_entries"
  /\ nativeCalls[1].fn = "mdata_mutate_entries"
  /\ nativeCalls[1].args[3] = batch.handle
  /\ batch.handle = 2
  /\ Len(Issued(batch.log)) = 4
  /\ Issued(batch.log)[2].version = 3
  /\ Issued(batch.log)[3].version = 5

\* an entry action has passed its input transform
ActionMarshalled ==
  /\ op \in { "mdata_entry_actions_insert", "mdata_entry_actions_update",
              "mdata_entry_actions_delete" }
  /\ pc \in {"dispatched", "settled"}
Marshalled == nativeCalls[1].args

\* a buffer of bytes followed by its byte length, at position i of args
BufferAndLength(args, i) ==
  /\ \A j \in 1..Len(args[i]) : args[i][j] \in 0..255
  /\ args[i + 1] = Len(args[i])

\* C12: insert(app, handle, key, value) is marshalled as (app, handle,
\* keyBuf, keyLen, valueBuf, valueLen), update(app, handle, key, value,
\* version) as the same followed by version, delete(app, handle, key,
\* version) as (app, handle, keyBuf, keyLen, version); each length is the
\* byte length of the buffer before it, a Buffer is passed as it is, and the
\* version is passed unchanged and never turned into a buffer
C12_ActionShapes ==
  ActionMarshalled =>
    /\ Len(nativeCalls) = 1
    /\ Len(Marshalled) = CASE op = "mdata_entry_actions_insert" -> 6
                           [] op = "mdata_entry_actions_update" -> 7
                           [] op = "mdata_entry_actions_delete" -> 5
    /\ Marshalled[1] = input[1]
    /\ Marshalled[2] = input[2]
    /\ BufferAndLength(Marshalled, 3)
    /\ Buffer_isBuffer(input[3]) => Marshalled[3] = input[3].items
    /\ op # "mdata_entry_actions_delete" =>
         /\ BufferAndLength(Marshalled, 5)
         /\ Buffer_isBuffer(input[4]) => Marshalled[5] = input[4].items
    /\ op \in VersionedActions =>
         /\ Marshalled[Len(Marshalled)] = input[Len(input)]
         /\ Marshalled[Len(Marshalled)] \in Versions

\* an update whose key is a string of three characters and six bytes and
\* whose value is the empty Buffer was marshalled with lengths 6 and 0 and
\* version 5
C12_Witness ==
  /\ op = "mdata_entry_actions_update" /\ pc = "dispatched"
  /\ input[3] = [isBuffer |-> FALSE, chars |-> <<107, 233, 8364>>]
  /\ input[4] = [isBuffer |-> TRUE, items |-> << >>]
  /\ input[5] = 5
  /\ Marshalled = <<App, batch.handle, <<107, 195, 169, 226, 130, 172>>, 6,
                    << >>, 0, 5>>

====
